---------------------------- MODULE Spec2Model ----------------------------
(***************************************************************************)
(* Model of fedora_desktop_cleaner.cleaner.DesktopDuplicateCleaner: the    *)
(* purge of wine launcher files, the scan for launchers sharing a display  *)
(* name, the resolver that hides all but one of them, the deduplication    *)
(* of the mimeapps.list association files, and run(), which sequences      *)
(* them.                                                                   *)
(*                                                                         *)
(* Text is a sequence of tokens.  Every token stands for a fixed piece of  *)
(* text ("Name=", ".desktop" entries, "\n", ...) chosen so that the       *)
(* string tests of the code (startswith, `in', split, strip, ==) decide    *)
(* the same on the token sequence as on the text it spells: "=" and ";"   *)
(* occur only as tokens of their own or as the last character of a key     *)
(* token, and no two tokens spell a third across their boundary.           *)
(***************************************************************************)
EXTENDS Integers, Sequences, FiniteSets, TLC

\* ------------------------------------------------------------------------
\* Bounds of the model
\* ------------------------------------------------------------------------

MaxLines == 4

MaxLineLen == 4

MaxBackups == 2

\* ------------------------------------------------------------------------
\* Text helpers (Python str and list operations used by the code)
\* ------------------------------------------------------------------------

\* What a path that names no file holds, and a key the parsed record lacks:
\* token sequences no file content and no value can equal.
NoFile == <<"<no file>">>

Absent == <<"<absent>">>

NL == "\n"

CR == "\r"

Whitespace == {" ", NL, CR}

RECURSIVE Concat(_)
\* ''.join(parts): the pieces one after the other.
Concat(parts) ==
    IF parts = <<>> THEN <<>> ELSE Head(parts) \o Concat(Tail(parts))

RECURSIVE JoinWith(_, _)
\* sep.join(parts)
JoinWith(parts, sep) ==
    IF parts = <<>> THEN <<>>
    ELSE IF Len(parts) = 1 THEN Head(parts)
    ELSE Head(parts) \o <<sep>> \o JoinWith(Tail(parts), sep)

RECURSIVE SplitAcc(_, _, _)
SplitAcc(s, sep, cur) ==
    IF s = <<>> THEN <<cur>>
    ELSE IF Head(s) = sep THEN <<cur>> \o SplitAcc(Tail(s), sep, <<>>)
    ELSE SplitAcc(Tail(s), sep, Append(cur, Head(s)))

\* s.split(sep): n separators give n + 1 pieces, empty ones included.
Split(s, sep) == SplitAcc(s, sep, <<>>)

Contains(s, tok) == \E i \in 1..Len(s) : s[i] = tok

IndexOf(s, tok) == CHOOSE i \in 1..Len(s) : s[i] = tok /\ \A j \in 1..(i - 1) : s[j] # tok

StartsWith(s, p) == Len(s) >= Len(p) /\ SubSeq(s, 1, Len(p)) = p

EndsWith(s, p) == Len(s) >= Len(p) /\ SubSeq(s, Len(s) - Len(p) + 1, Len(s)) = p

RECURSIVE LStrip(_)
LStrip(s) == IF s # <<>> /\ Head(s) \in Whitespace THEN LStrip(Tail(s)) ELSE s

RECURSIVE RStrip(_)
RStrip(s) ==
    IF s # <<>> /\ s[Len(s)] \in Whitespace THEN RStrip(SubSeq(s, 1, Len(s) - 1)) ELSE s

\* str.strip()
Strip(s) == RStrip(LStrip(s))

\* str.lower() on the value tokens of the model
Lower(s) == [i \in 1..Len(s) |-> IF s[i] \in {"True", "TRUE"} THEN "true" ELSE s[i]]

RECURSIVE ReadText(_)
\* Reading a file opened in text mode (newline=None): "\r\n" and a lone
\* "\r" both arrive as "\n".
ReadText(bytes) ==
    IF bytes = <<>> THEN <<>>
    ELSE IF Head(bytes) = CR
         THEN IF Len(bytes) >= 2 /\ bytes[2] = NL
              THEN <<NL>> \o ReadText(Tail(Tail(bytes)))
              ELSE <<NL>> \o ReadText(Tail(bytes))
         ELSE <<Head(bytes)>> \o ReadText(Tail(bytes))

RECURSIVE ReadLinesAcc(_, _)
ReadLinesAcc(s, cur) ==
    IF s = <<>> THEN (IF cur = <<>> THEN <<>> ELSE <<cur>>)
    ELSE IF Head(s) = NL THEN <<Append(cur, NL)>> \o ReadLinesAcc(Tail(s), <<>>)
    ELSE ReadLinesAcc(Tail(s), Append(cur, Head(s)))

\* f.readlines() / iterating a text file: the lines with their "\n" kept; a
\* last line without terminator is a line too.
ReadLines(bytes) == ReadLinesAcc(ReadText(bytes), <<>>)

\* ------------------------------------------------------------------------
\* parse_desktop_file
\* ------------------------------------------------------------------------

\* info = {}: no_display is "True", "False" or, the key missing, "absent".
EmptyInfo == [name |-> Absent, no_display |-> "absent", type |-> Absent]

\* One turn of the loop over the lines: a later line with the same key
\* assigns info[key] again.
parse_line(info, rawline) ==
    LET line == Strip(rawline) IN
    IF StartsWith(line, <<"Name=">>) THEN [info EXCEPT !.name = Tail(line)]
    ELSE IF StartsWith(line, <<"NoDisplay=">>)
         THEN [info EXCEPT !.no_display =
                   IF Lower(Tail(line)) = <<"true">> THEN "True" ELSE "False"]
    ELSE IF StartsWith(line, <<"Type=">>) THEN [info EXCEPT !.type = Tail(line)]
    ELSE info

RECURSIVE parse_lines(_, _)
parse_lines(info, lines) ==
    IF lines = <<>> THEN info
    ELSE parse_lines(parse_line(info, Head(lines)), Tail(lines))

\* A file that cannot be opened gives the empty record (the exception is
\* logged, not raised).
parse_desktop_file(content) ==
    IF content = NoFile THEN EmptyInfo
    ELSE parse_lines(EmptyInfo, ReadLines(content))

\* ------------------------------------------------------------------------
\* _add_no_display and _create_hide_override: the new file content
\* ------------------------------------------------------------------------

HeaderLine == <<"[Desktop Entry]">>

NoDisplayTrueLine == <<"NoDisplay=", "true", NL>>

is_no_display_line(line) == StartsWith(Strip(line), <<"NoDisplay=">>)

RECURSIVE insert_flag(_, _)
\* The loop that copies the lines and adds the flag after the first header;
\* gives <<new_lines, added_no_display>>.
insert_flag(lines, added) ==
    IF lines = <<>> THEN <<(<<>>), added>>
    ELSE LET line == Head(lines)
             here == Strip(line) = HeaderLine /\ ~added
             rest == insert_flag(Tail(lines), added \/ here)
         IN  << <<line>> \o (IF here THEN <<NoDisplayTrueLine>> ELSE <<>>) \o rest[1],
                rest[2] >>

\* The content _add_no_display writes for a file holding `content'.
add_no_display_text(content) ==
    LET lines == SelectSeq(ReadLines(content), LAMBDA l : ~is_no_display_line(l))
        ins   == insert_flag(lines, FALSE)
        new_lines == IF ins[2] THEN ins[1]
                     ELSE ins[1] \o << HeaderLine \o <<NL>>, NoDisplayTrueLine >>
    IN  Concat(new_lines)

\* The content of the override file _create_hide_override writes.
hide_override_text(app_name) ==
    <<"[Desktop Entry]", NL, "Type=", "Application", NL, "Name=">> \o app_name
        \o <<NL, "NoDisplay=", "true", NL>>

\* ------------------------------------------------------------------------
\* Paths: the two roots, the file names, str(path) and its ordering
\* ------------------------------------------------------------------------

SYSTEM == "system"

USER == "user"

Roles == {SYSTEM, USER}

DotDesktop == <<".", "d", "e", "s", "k", "t", "o", "p">>

WineExtensionPrefix == <<"w", "i", "n", "e", "-", "e", "x", "t", "e", "n", "s", "i", "o", "n", "-">>

WineProtocolPrefix == <<"w", "i", "n", "e", "-", "p", "r", "o", "t", "o", "c", "o", "l", "-">>

WinePrefix == <<"w", "i", "n", "e", "-">>

BackupPrefix == <<"b", "a", "c", "k", "u", "p", "_">>

\* The launcher file names of the model, under either root.
FileNames == {"a.desktop", "b.desktop", "c.desktop",
              "wine-extension-a.desktop", "wine-protocol-a.desktop"}

\* The entries of the USER root that are not launcher files of FileNames,
\* and the files a backup_* directory may hold.
SubdirNames == {"backup_a", "backup_b", "old_a"}

InnerNames == {"wine-a.desktop", "wine-b.desktop", "a.desktop"}

\* The characters of each name.
NameChars(n) ==
    CASE n = "a.desktop" -> <<"a">> \o DotDesktop
      [] n = "b.desktop" -> <<"b">> \o DotDesktop
      [] n = "c.desktop" -> <<"c">> \o DotDesktop
      [] n = "wine-extension-a.desktop" -> WineExtensionPrefix \o <<"a">> \o DotDesktop
      [] n = "wine-protocol-a.desktop" -> WineProtocolPrefix \o <<"a">> \o DotDesktop
      [] n = "wine-a.desktop" -> WinePrefix \o <<"a">> \o DotDesktop
      [] n = "wine-b.desktop" -> WinePrefix \o <<"b">> \o DotDesktop
      [] n = "backup_a" -> BackupPrefix \o <<"a">>
      [] n = "backup_b" -> BackupPrefix \o <<"b">>
      [] n = "old_a" -> <<"o", "l", "d", "_", "a">>

\* Path("/usr/share/applications")
system_apps_dir ==
    <<"/", "u", "s", "r", "/", "s", "h", "a", "r", "e", "/",
      "a", "p", "p", "l", "i", "c", "a", "t", "i", "o", "n", "s">>

\* Path.home(): the home directory of the account the cleaner runs under.
HomeDir == <<"/", "h", "o", "m", "e", "/", "u">>

\* Path.home() / ".local/share/applications"
user_apps_dir ==
    HomeDir \o <<"/", ".", "l", "o", "c", "a", "l", "/", "s", "h", "a", "r", "e", "/",
                 "a", "p", "p", "l", "i", "c", "a", "t", "i", "o", "n", "s">>

RootStr(role) == IF role = SYSTEM THEN system_apps_dir ELSE user_apps_dir

\* A path is <<role, name>>: the file `name' directly under the role's root.
Paths == Roles \X FileNames

\* str(path), tabulated over the paths of the model.
PathStrTable == [p \in Paths |-> RootStr(p[1]) \o <<"/">> \o NameChars(p[2])]

PathStr(p) == PathStrTable[p]

Letters == <<"a", "b", "c", "d", "e", "f", "g", "h", "i", "j", "k", "l", "m",
             "n", "o", "p", "q", "r", "s", "t", "u", "v", "w", "x", "y", "z">>

\* ord(c): the code point Python compares strings by.
Ord(c) ==
    CASE c = "-" -> 45
      [] c = "." -> 46
      [] c = "/" -> 47
      [] c = "_" -> 95
      [] OTHER -> 96 + (CHOOSE i \in 1..Len(Letters) : Letters[i] = c)

RECURSIVE StrLess(_, _)
\* s < t for Python strings: by code point, a proper prefix first.
StrLess(s, t) ==
    IF t = <<>> THEN FALSE
    ELSE IF s = <<>> THEN TRUE
    ELSE IF Head(s) = Head(t) THEN StrLess(Tail(s), Tail(t))
    ELSE Ord(Head(s)) < Ord(Head(t))

\* fnmatch of a name against prefix*suffix
GlobMatch(chars, prefix, suffix) ==
    /\ Len(chars) >= Len(prefix) + Len(suffix)
    /\ StartsWith(chars, prefix)
    /\ EndsWith(chars, suffix)

\* ------------------------------------------------------------------------
\* find_desktop_files and find_duplicate_applications
\* ------------------------------------------------------------------------

\* The orders in which a glob may list the files of set S.
Listings(S) ==
    {o \in [1..Cardinality(S) -> S] : \A i, j \in 1..Cardinality(S) : o[i] = o[j] => i = j}

\* The paths whose name matches "*.desktop".
DesktopPattern == {p \in Paths : GlobMatch(NameChars(p[2]), <<>>, DotDesktop)}

\* root.glob("*.desktop") on a directory tree `files'.
DesktopFilesIn(files, role) ==
    {p \in DesktopPattern : p[1] = role /\ files[p] # NoFile}

RECURSIVE index_add(_, _, _)
\* name_to_files[name].append(filepath) on the insertion-ordered dict, held
\* as a sequence of [name, files].
index_add(index, name, filepath) ==
    IF index = <<>> THEN << [name |-> name, files |-> <<filepath>>] >>
    ELSE IF Head(index).name = name
         THEN << [Head(index) EXCEPT !.files = Append(@, filepath)] >> \o Tail(index)
         ELSE << Head(index) >> \o index_add(Tail(index), name, filepath)

\* Whether the scan takes the parsed record as a candidate.
is_candidate(info) ==
    /\ info.name # Absent
    /\ info.type = <<"Application">>
    /\ info.no_display # "True"

RECURSIVE name_to_files(_, _, _)
name_to_files(index, desktop_files, files) ==
    IF desktop_files = <<>> THEN index
    ELSE LET filepath == Head(desktop_files)
             info == parse_desktop_file(files[filepath])
         IN  name_to_files(IF is_candidate(info) THEN index_add(index, info.name, filepath)
                           ELSE index,
                           Tail(desktop_files), files)

\* Mutant: the names with a single file are kept in the index.
find_duplicate_applications_keep_single(desktop_files, files) ==
    SelectSeq(name_to_files(<<>>, desktop_files, files), LAMBDA g : Len(g.files) > 0)

\* find_duplicate_applications for one listing of the two directories.
find_duplicate_applications(desktop_files, files) ==
    SelectSeq(name_to_files(<<>>, desktop_files, files), LAMBDA g : Len(g.files) > 1)

\* find_desktop_files: exists() on a root raises PermissionError when the
\* root cannot be examined; nothing catches it.
find_desktop_files_raises(denied) ==
    IF <<"stat", SYSTEM>> \in denied \/ <<"stat", USER>> \in denied
    THEN "PermissionError" ELSE "none"

\* Every index find_duplicate_applications may return on `files'.
ScanResults(files) ==
    {find_duplicate_applications(sys_list \o user_list, files) :
        sys_list \in Listings(DesktopFilesIn(files, SYSTEM)),
        user_list \in Listings(DesktopFilesIn(files, USER))}

\* ------------------------------------------------------------------------
\* hide_duplicate_applications
\* ------------------------------------------------------------------------

\* str(f).startswith(str(self.user_apps_dir)), tabulated.
UserPrefixed == {p \in Paths : StartsWith(PathStr(p), user_apps_dir)}

is_user_file(p) == p \in UserPrefixed

\* str(f).startswith(str(self.system_apps_dir)), tabulated.
SystemPrefixed == {p \in Paths : StartsWith(PathStr(p), system_apps_dir)}

is_system_file(p) == p \in SystemPrefixed

\* Mutant: the key without its first component, the path string alone.
sort_key_path_only(p) == << 0, PathStr(p) >>

\* The sort key of hide_duplicate_applications: (user files last, str(f)).
sort_key(p) == << IF is_user_file(p) THEN 1 ELSE 0, PathStr(p) >>

\* Tuple comparison of two sort keys.
KeyLess(k1, k2) == k1[1] < k2[1] \/ (k1[1] = k2[1] /\ StrLess(k1[2], k2[2]))

\* The pairs <<p, q>> with key(p) < key(q), tabulated.
SortsBefore == {pq \in Paths \X Paths : KeyLess(sort_key(pq[1]), sort_key(pq[2]))}

RECURSIVE sort_insert(_, _)
sort_insert(sorted, p) ==
    IF sorted = <<>> THEN <<p>>
    ELSE IF <<p, Head(sorted)>> \in SortsBefore THEN <<p>> \o sorted
    ELSE <<Head(sorted)>> \o sort_insert(Tail(sorted), p)

RECURSIVE files_sorted(_)
\* sorted(files, key=...): stable, ascending.
files_sorted(files) ==
    IF files = <<>> THEN <<>>
    ELSE sort_insert(files_sorted(SubSeq(files, 1, Len(files) - 1)), files[Len(files)])

\* Mutant: the override is written over the system file itself.
local_override_in_place(duplicate_file) == duplicate_file

\* Where the override of a system file is written.
local_override(duplicate_file) == <<USER, duplicate_file[2]>>

\* One turn of the inner loop.  st = [files, hidden_count, errors]; `denied'
\* are the objects whose modification raises OSError.
hide_one(st, app_name, duplicate_file, dry, denied) ==
    IF is_system_file(duplicate_file)
    THEN LET target == local_override(duplicate_file) IN
         IF dry THEN [st EXCEPT !.hidden_count = @ + 1]
         ELSE IF target \in denied THEN [st EXCEPT !.errors = @ + 1]
         ELSE [st EXCEPT !.files[target] = hide_override_text(app_name),
                         !.hidden_count = @ + 1]
    ELSE IF is_user_file(duplicate_file)
    THEN IF dry THEN [st EXCEPT !.hidden_count = @ + 1]
         ELSE IF st.files[duplicate_file] = NoFile \/ duplicate_file \in denied
         THEN [st EXCEPT !.errors = @ + 1]
         ELSE [st EXCEPT !.files[duplicate_file] = add_no_display_text(@),
                         !.hidden_count = @ + 1]
    ELSE st

RECURSIVE hide_each(_, _, _, _, _)
hide_each(st, app_name, duplicate_files, dry, denied) ==
    IF duplicate_files = <<>> THEN st
    ELSE hide_each(hide_one(st, app_name, Head(duplicate_files), dry, denied),
                   app_name, Tail(duplicate_files), dry, denied)

RECURSIVE hide_groups(_, _, _, _)
\* The outer loop over duplicates.items().
hide_groups(st, dups, dry, denied) ==
    IF dups = <<>> THEN st
    ELSE LET sorted == files_sorted(Head(dups).files)
             after  == hide_each(st, Head(dups).name, Tail(sorted), dry, denied)
         IN  hide_groups([after EXCEPT !.primary = Append(@, Head(sorted))],
                         Tail(dups), dry, denied)

\* hide_duplicate_applications(duplicates): the files afterwards, the count
\* returned, the primary_file of each group in turn, the failures logged.
hide_duplicate_applications(files, dups, dry, denied) ==
    hide_groups([files |-> files, hidden_count |-> 0, primary |-> <<>>, errors |-> 0],
                dups, dry, denied)

\* ------------------------------------------------------------------------
\* remove_wine_files
\* ------------------------------------------------------------------------

\* The names matching one of wine_patterns.
WinePattern ==
    {n \in FileNames : \/ GlobMatch(NameChars(n), WineExtensionPrefix, DotDesktop)
                       \/ GlobMatch(NameChars(n), WineProtocolPrefix, DotDesktop)}

\* self.user_apps_dir.glob(pattern) for the two wine patterns.
wine_files(files) ==
    {p \in Paths : p[1] = USER /\ files[p] # NoFile /\ p[2] \in WinePattern}

\* The names matching "wine-*.desktop" and those matching "backup_*".
BackupWinePattern == {n \in InnerNames : GlobMatch(NameChars(n), WinePrefix, DotDesktop)}

BackupPattern == {d \in SubdirNames : GlobMatch(NameChars(d), BackupPrefix, <<>>)}

\* Mutant: every file of the directory.
all_files_in_backup(entry) == entry.files

\* backup_dir.glob("wine-*.desktop")
wine_files_in_backup(entry) == entry.files \cap BackupWinePattern

\* The backup_* entries that are directories holding a wine file.
wine_backup_dirs(dirs) ==
    {d \in BackupPattern : dirs[d].kind = "dir" /\ wine_files_in_backup(dirs[d]) # {}}

NoEntry == [kind |-> "none", files |-> {}]

RECURSIVE SumOver(_, _)
SumOver(S, f) ==
    IF S = {} THEN 0
    ELSE LET x == CHOOSE y \in S : TRUE IN f[x] + SumOver(S \ {x}, f)

\* remove_wine_files: each deletion is tried on its own, so the outcome is
\* the same for every order of the two listings.
remove_wine_files(files, dirs, dry, denied) ==
    LET matched == wine_files(files)
        gone    == IF dry THEN {} ELSE matched \ denied
        bdirs   == wine_backup_dirs(dirs)
        bgone   == IF dry THEN {} ELSE {d \in bdirs : <<"backup_dir", d>> \notin denied}
        inside  == [d \in DOMAIN dirs |-> Cardinality(wine_files_in_backup(dirs[d]))]
    IN  [files |-> [p \in Paths |-> IF p \in gone THEN NoFile ELSE files[p]],
         dirs |-> [d \in DOMAIN dirs |-> IF d \in bgone THEN NoEntry ELSE dirs[d]],
         removed_count |->
             IF dry THEN Cardinality(matched) + SumOver(bdirs, inside)
             ELSE Cardinality(gone) + SumOver(bgone, inside),
         errors |-> IF dry THEN 0
                    ELSE Cardinality(matched \ gone) + Cardinality(bdirs \ bgone)]

\* ------------------------------------------------------------------------
\* _clean_mime_file and clean_mime_duplicates
\* ------------------------------------------------------------------------

\* The tokens that spell text containing ".desktop".
DesktopTokens == {"a.desktop", "b.desktop", "c.desktop"}

\* '.desktop' in line
has_desktop(line) == \E i \in 1..Len(line) : line[i] \in DesktopTokens

RECURSIVE unique_apps_keep_empty(_, _)
\* Mutant: the loop without the `if app' test.
unique_apps_keep_empty(apps, kept) ==
    IF apps = <<>> THEN kept
    ELSE LET app == Head(apps) IN
         unique_apps_keep_empty(Tail(apps),
                                IF ~\E i \in 1..Len(kept) : kept[i] = app
                                THEN Append(kept, app) ELSE kept)

RECURSIVE unique_apps(_, _)
\* The loop over apps with the `seen' set: the non-empty entries, each at
\* its first occurrence.
unique_apps(apps, kept) ==
    IF apps = <<>> THEN kept
    ELSE LET app == Head(apps) IN
         unique_apps(Tail(apps),
                     IF app # <<>> /\ ~\E i \in 1..Len(kept) : kept[i] = app
                     THEN Append(kept, app) ELSE kept)

\* Mutant: every line holding '=' is rebuilt.
clean_line_any_key(line) ==
    IF Contains(line, "=")
    THEN LET eq    == IndexOf(line, "=")
             key   == SubSeq(line, 1, eq - 1)
             value == SubSeq(line, eq + 1, Len(line))
             joined == JoinWith(unique_apps(Split(value, ";"), <<>>), ";")
             cleaned_value == IF joined # <<>> /\ ~EndsWith(joined, <<";">>)
                              THEN joined \o <<";">> ELSE joined
         IN  key \o <<"=">> \o cleaned_value
    ELSE line

\* The body of the loop over the lines of the association file.
clean_line(line) ==
    IF Contains(line, "=") /\ has_desktop(line)
    THEN LET eq    == IndexOf(line, "=")
             key   == SubSeq(line, 1, eq - 1)
             value == SubSeq(line, eq + 1, Len(line))
             joined == JoinWith(unique_apps(Split(value, ";"), <<>>), ";")
             cleaned_value == IF joined # <<>> /\ ~EndsWith(joined, <<";">>)
                              THEN joined \o <<";">> ELSE joined
         IN  key \o <<"=">> \o cleaned_value
    ELSE line

\* Mutant: the lines written each with its terminator.
clean_mime_text_terminated(content) ==
    LET lines == Split(ReadText(content), NL)
    IN  JoinWith([i \in 1..Len(lines) |-> clean_line(lines[i])], NL) \o <<NL>>

\* What _clean_mime_file writes for a file holding `content'.
clean_mime_text(content) ==
    LET lines == Split(ReadText(content), NL)
    IN  JoinWith([i \in 1..Len(lines) |-> clean_line(lines[i])], NL)

\* The two association files, in the order clean_mime_duplicates takes them.
mime_files == <<"user_mime_file", "config_mime_file">>

\* _clean_mime_file inside the try of clean_mime_duplicates.
\* st = [mimefs, bak, backups_created, cleaned_count, errors, raised].
clean_mime_file(st, mime_file, dry, denied) ==
    IF dry THEN [st EXCEPT !.cleaned_count = @ + 1]
    ELSE IF <<"bak", mime_file>> \in denied THEN [st EXCEPT !.errors = @ + 1]
    ELSE LET copied == [st EXCEPT !.bak[mime_file] = st.mimefs[mime_file],
                                  !.backups_created = @ + 1]
         IN  IF <<"mime", mime_file>> \in denied THEN [copied EXCEPT !.errors = @ + 1]
             ELSE [copied EXCEPT !.mimefs[mime_file] = clean_mime_text(@),
                                 !.cleaned_count = @ + 1]

RECURSIVE clean_each(_, _, _, _)
\* The loop of clean_mime_duplicates: mime_file.exists() is outside the try
\* and raises PermissionError when the file cannot be examined.
clean_each(st, todo, dry, denied) ==
    IF todo = <<>> \/ st.raised # "none" THEN st
    ELSE IF <<"stat", Head(todo)>> \in denied
    THEN [st EXCEPT !.raised = "PermissionError"]
    ELSE clean_each(IF st.mimefs[Head(todo)] # NoFile
                    THEN clean_mime_file(st, Head(todo), dry, denied) ELSE st,
                    Tail(todo), dry, denied)

clean_mime_duplicates(mimefs, bak, backups_created, dry, denied) ==
    clean_each([mimefs |-> mimefs, bak |-> bak, backups_created |-> backups_created,
                cleaned_count |-> 0, errors |-> 0, raised |-> "none"],
               mime_files, dry, denied)

\* ------------------------------------------------------------------------
\* State
\* ------------------------------------------------------------------------

VARIABLES
    pc,           \* "new" before __init__, "idle" between calls, else the stage run() is at
    dry_run,      \* self.dry_run
    stats,        \* self.stats
    user_dir,     \* whether the USER root directory exists
    fs,           \* the launcher files under the two roots: path -> content
    backup_dirs,  \* the backup_* entries of the USER root
    mimefs,       \* the two mimeapps.list files
    bak,          \* their mimeapps.list.bak copies
    cache_runs,   \* whether update-desktop-database was started
    unwritable,   \* the objects whose modification the system refuses
    duplicates,   \* the index the last find_duplicate_applications returned
    returned,     \* the count the last entry point returned
    errors,       \* failures the last entry point logged
    last_op,      \* the entry point that completed last
    before,       \* the disk when the last entry point was entered
    primaries,    \* primary_file of each group of the last hide (its debug log)
    fresh,        \* nothing but the current run() was called since __init__
    raised,       \* the exception the last call raised to its caller, or "none"
    cause,        \* the __cause__ of that exception, or "none"
    disk0         \* the disk before __init__

vars == <<pc, dry_run, stats, user_dir, fs, backup_dirs, mimefs, bak, cache_runs,
          unwritable, duplicates, returned, errors, last_op, before,
          primaries, fresh, raised, cause, disk0>>

diskvars == <<user_dir, fs, backup_dirs, mimefs, bak, cache_runs>>

Disk == [user_dir |-> user_dir, fs |-> fs, backup_dirs |-> backup_dirs,
         mimefs |-> mimefs, bak |-> bak, cache_runs |-> cache_runs]

ZeroStats == [wine_files_removed |-> 0, duplicates_hidden |-> 0,
              mime_duplicates_cleaned |-> 0, backups_created |-> 0]

\* ------------------------------------------------------------------------
\* __init__ and the entry points
\* ------------------------------------------------------------------------

\* DesktopDuplicateCleaner(dry_run=dry)
Construct(dry) ==
    /\ pc = "new"
    /\ pc' = "idle"
    /\ dry_run' = dry
    /\ user_dir' = TRUE
    /\ stats' = ZeroStats
    /\ fresh' = TRUE
    /\ last_op' = "__init__"
    /\ before' = Disk
    /\ raised' = "none"
    /\ cause' = "none"
    /\ UNCHANGED <<fs, backup_dirs, mimefs, bak, cache_runs, unwritable, duplicates,
                   returned, errors, primaries, disk0>>

\* What the caller sees of an exception `exc' of a method: the exception
\* itself, or inside run() the CleanerError raised from it.
Escapes(exc, in_run) ==
    /\ raised' = IF exc = "none" THEN "none" ELSE IF in_run THEN "CleanerError" ELSE exc
    /\ cause' = IF exc # "none" /\ in_run THEN exc ELSE "none"

\* The body of remove_wine_files, as an entry point and as a stage of run().
DoRemoveWineFiles(in_run) ==
    LET r == remove_wine_files(fs, backup_dirs, dry_run, unwritable) IN
    /\ fs' = r.files
    /\ backup_dirs' = r.dirs
    /\ stats' = [stats EXCEPT !.wine_files_removed = r.removed_count]
    /\ returned' = r.removed_count
    /\ errors' = r.errors
    /\ last_op' = "remove_wine_files"
    /\ before' = Disk
    /\ Escapes("none", in_run)
    /\ UNCHANGED <<dry_run, user_dir, mimefs, bak, cache_runs, unwritable, duplicates,
                   primaries, disk0>>

\* The body of find_duplicate_applications: the two globs list the files in
\* an order of the file system's choosing, system directory first.
DoFindDuplicateApplications(in_run) ==
    LET exc == find_desktop_files_raises(unwritable) IN
    /\ \E index \in ScanResults(fs) :
          duplicates' = IF exc = "none" THEN index ELSE duplicates
    /\ last_op' = "find_duplicate_applications"
    /\ errors' = 0
    /\ before' = Disk
    /\ Escapes(exc, in_run)
    /\ UNCHANGED <<dry_run, stats, user_dir, fs, backup_dirs, mimefs, bak, cache_runs,
                   unwritable, returned, primaries, disk0>>

\* The body of hide_duplicate_applications(dups).
DoHideDuplicateApplications(dups, in_run) ==
    LET r == hide_duplicate_applications(fs, dups, dry_run, unwritable) IN
    /\ fs' = r.files
    /\ stats' = [stats EXCEPT !.duplicates_hidden = r.hidden_count]
    /\ returned' = r.hidden_count
    /\ errors' = r.errors
    /\ primaries' = r.primary
    /\ duplicates' = dups
    /\ last_op' = "hide_duplicate_applications"
    /\ before' = Disk
    /\ Escapes("none", in_run)
    /\ UNCHANGED <<dry_run, user_dir, backup_dirs, mimefs, bak, cache_runs, unwritable,
                   disk0>>

\* The body of clean_mime_duplicates: when exists() raises, the count of
\* this call is neither stored nor returned.
DoCleanMimeDuplicates(in_run) ==
    LET r == clean_mime_duplicates(mimefs, bak, stats.backups_created, dry_run, unwritable) IN
    /\ mimefs' = r.mimefs
    /\ bak' = r.bak
    /\ stats' = [stats EXCEPT !.backups_created = r.backups_created,
                              !.mime_duplicates_cleaned =
                                  IF r.raised = "none" THEN r.cleaned_count ELSE @]
    /\ returned' = IF r.raised = "none" THEN r.cleaned_count ELSE returned
    /\ errors' = r.errors
    /\ last_op' = "clean_mime_duplicates"
    /\ before' = Disk
    /\ Escapes(r.raised, in_run)
    /\ UNCHANGED <<dry_run, user_dir, fs, backup_dirs, cache_runs, unwritable, duplicates,
                   primaries, disk0>>

\* The body of update_caches.
DoUpdateCaches(in_run) ==
    /\ cache_runs' = (cache_runs \/ ~dry_run)
    /\ last_op' = "update_caches"
    /\ errors' = 0
    /\ before' = Disk
    /\ Escapes("none", in_run)
    /\ UNCHANGED <<dry_run, stats, user_dir, fs, backup_dirs, mimefs, bak, unwritable,
                   duplicates, returned, primaries, disk0>>

\* The caller invokes one entry point on the idle cleaner.
\* backups_created grows with every call: the model stops calling the
\* association deduplicator once another call could pass MaxBackups.
CanBackup ==
    stats.backups_created + Cardinality({m \in DOMAIN mimefs : mimefs[m] # NoFile}) <= MaxBackups

RemoveWineFiles == pc = "idle" /\ DoRemoveWineFiles(FALSE) /\ pc' = "idle" /\ fresh' = FALSE

FindDuplicateApplications ==
    pc = "idle" /\ DoFindDuplicateApplications(FALSE) /\ pc' = "idle" /\ fresh' = FALSE

\* The caller passes on the index the last scan returned.
HideDuplicateApplications ==
    /\ pc = "idle"
    /\ DoHideDuplicateApplications(duplicates, FALSE)
    /\ pc' = "idle"
    /\ fresh' = FALSE

CleanMimeDuplicates ==
    pc = "idle" /\ CanBackup /\ DoCleanMimeDuplicates(FALSE) /\ pc' = "idle" /\ fresh' = FALSE

UpdateCaches == pc = "idle" /\ DoUpdateCaches(FALSE) /\ pc' = "idle" /\ fresh' = FALSE

\* ------------------------------------------------------------------------
\* run(): one action per statement of its try block
\* ------------------------------------------------------------------------

\* Mutant: the handler logs the exception and run() goes on.
run_next_after_logging(stage, failed, dry) ==
    CASE stage = "idle" -> "scan"
      [] stage = "scan" -> "resolve"
      [] stage = "resolve" -> "mime"
      [] stage = "mime" -> IF dry THEN "report" ELSE "caches"
      [] stage = "caches" -> "report"
      [] OTHER -> "idle"

\* Mutant: the caches are refreshed whatever the mode.
run_next_always_caches(stage, failed, dry) ==
    IF failed THEN "idle"
    ELSE CASE stage = "idle" -> "scan"
           [] stage = "scan" -> "resolve"
           [] stage = "resolve" -> "mime"
           [] stage = "mime" -> "caches"
           [] stage = "caches" -> "report"
           [] OTHER -> "idle"

\* Where run() is after the statement at `stage': an exception ends it in
\* the except clause; pc "idle" stands for the first statement.
run_next(stage, failed, dry) ==
    IF failed THEN "idle"
    ELSE CASE stage = "idle" -> "scan"
           [] stage = "scan" -> "resolve"
           [] stage = "resolve" -> "mime"
           [] stage = "mime" -> IF dry THEN "report" ELSE "caches"
           [] stage = "caches" -> "report"
           [] OTHER -> "idle"

\* The statement at pc was executed inside run().
RunStep ==
    /\ pc' = run_next(pc, raised' # "none", dry_run)
    /\ fresh' = (fresh /\ raised' = "none")

RunPurge == pc = "idle" /\ CanBackup /\ DoRemoveWineFiles(TRUE) /\ RunStep

RunScan == pc = "scan" /\ DoFindDuplicateApplications(TRUE) /\ RunStep

RunResolve == pc = "resolve" /\ DoHideDuplicateApplications(duplicates, TRUE) /\ RunStep

RunMime == pc = "mime" /\ DoCleanMimeDuplicates(TRUE) /\ RunStep

RunCaches == pc = "caches" /\ DoUpdateCaches(TRUE) /\ RunStep

\* print_summary and return self.get_stats()
RunReport ==
    /\ pc = "report"
    /\ pc' = run_next(pc, FALSE, dry_run)
    /\ fresh' = FALSE
    /\ last_op' = "run"
    /\ UNCHANGED <<dry_run, stats, user_dir, fs, backup_dirs, mimefs, bak, cache_runs,
                   unwritable, duplicates, returned, errors, before,
                   primaries, raised, cause, disk0>>

Next ==
    \/ \E dry \in BOOLEAN : Construct(dry)
    \/ RemoveWineFiles
    \/ FindDuplicateApplications
    \/ HideDuplicateApplications
    \/ CleanMimeDuplicates
    \/ UpdateCaches
    \/ RunPurge
    \/ RunScan
    \/ RunResolve
    \/ RunMime
    \/ RunCaches
    \/ RunReport

\* ------------------------------------------------------------------------
\* Initial states
\* ------------------------------------------------------------------------

RECURSIVE Choices(_, _)
\* The functions f on D with f[x] \in opts[x].
Choices(D, opts) ==
    IF D = {} THEN {<<>>}
    ELSE LET x == CHOOSE y \in D : TRUE
         IN  {(x :> v) @@ f : v \in opts[x], f \in Choices(D \ {x}, opts)}

\* A launcher file of an application with display name `name'.
AppText(name) ==
    <<"[Desktop Entry]", NL, "Type=", "Application", NL, "Name=", name, NL>>

HiddenAppText(name) == AppText(name) \o <<"NoDisplay=", "true", NL>>

\* The launcher contents the directories may hold at first, by path.
LauncherOptions ==
    [p \in Paths |->
        IF p = <<SYSTEM, "b.desktop">> THEN {AppText("A")}
        ELSE IF p \in {<<SYSTEM, "wine-extension-a.desktop">>, <<USER, "b.desktop">>,
                       <<USER, "wine-extension-a.desktop">>}
        THEN {NoFile, AppText("A")} ELSE {NoFile}]

DirOf(names) == [kind |-> "dir", files |-> names]

BackupOptions ==
    [d \in SubdirNames |->
        CASE d = "backup_a" -> {NoEntry, DirOf({"wine-a.desktop", "a.desktop"})}
          [] OTHER -> {NoEntry}]

\* mimeapps.list contents: a section header, an association line with a
\* repeated and an empty entry, a line without ".desktop".
MimeSample ==
    <<"[Added Associations]", NL,
      "k", "=", "a.desktop", ";", "b.desktop", ";", "a.desktop", ";", ";", NL,
      "k", "=", "x">>

MimeOptions ==
    [m \in {"user_mime_file", "config_mime_file"} |->
        IF m = "user_mime_file" THEN {NoFile, MimeSample} ELSE {NoFile}]

NoFiles(D) == [x \in D |-> NoFile]

\* Without the USER root nothing lies under it.
UserRootEmpty ==
    /\ \A p \in Paths : p[1] = USER => fs[p] = NoFile
    /\ \A d \in SubdirNames : backup_dirs[d] = NoEntry
    /\ mimefs["user_mime_file"] = NoFile

InitCleaner ==
    /\ pc = "new"
    /\ dry_run = FALSE
    /\ stats = ZeroStats
    /\ cache_runs = FALSE
    /\ duplicates = <<>>
    /\ returned = 0
    /\ errors = 0
    /\ last_op = "none"
    /\ primaries = <<>>
    /\ fresh = FALSE
    /\ raised = "none"
    /\ cause = "none"
    /\ before = Disk
    /\ disk0 = Disk

Init ==
    /\ fs \in Choices(Paths, LauncherOptions)
    /\ backup_dirs \in Choices(SubdirNames, BackupOptions)
    /\ mimefs \in Choices({"user_mime_file", "config_mime_file"}, MimeOptions)
    /\ bak = NoFiles({"user_mime_file", "config_mime_file"})
    /\ user_dir \in BOOLEAN
    /\ ~user_dir => UserRootEmpty
    /\ unwritable = {}
    /\ InitCleaner

Spec == Init /\ [][Next]_vars

\* ------------------------------------------------------------------------
\* run() as a function of the disk it starts on
\* ------------------------------------------------------------------------

\* The statistics a complete run() of a new cleaner may return on disk d
\* when no I/O fails, one for every listing order of the scan.
RunOutcomes(d, dry) ==
    LET w == remove_wine_files(d.fs, d.backup_dirs, dry, {})
        m == clean_mime_duplicates(d.mimefs, d.bak, 0, dry, {})
    IN  {[wine_files_removed |-> w.removed_count,
          duplicates_hidden |-> hide_duplicate_applications(w.files, dups, dry, {}).hidden_count,
          mime_duplicates_cleaned |-> m.cleaned_count,
          backups_created |-> m.backups_created] : dups \in ScanResults(w.files)}

\* ------------------------------------------------------------------------
\* Claims checked under Spec
\* ------------------------------------------------------------------------

\* C3: in every reachable state the files under the SYSTEM root and their
\* contents are those of the initial disk; suppressing a SYSTEM-role record
\* only writes the same-named file under the USER root.
C3_SystemRootUntouched ==
    \A p \in Paths : p[1] = SYSTEM => fs[p] = disk0.fs[p]

\* A SYSTEM-role record has just been suppressed: its override now lies
\* under the USER root, where the same-named file held something else.
C3_Witness ==
    /\ last_op = "hide_duplicate_applications"
    /\ ~dry_run
    /\ \E i \in 1..Len(duplicates) : \E j \in 1..Len(duplicates[i].files) :
          LET p == duplicates[i].files[j] IN
          /\ p[1] = SYSTEM
          /\ p # primaries[i]
          /\ fs[<<USER, p[2]>>] = hide_override_text(duplicates[i].name)
          /\ before.fs[<<USER, p[2]>>] # fs[<<USER, p[2]>>]

\* C4: a complete run() with dry_run=true returns the same four counters as
\* a complete run() with dry_run=false from the same initial state.  At the
\* report of a run made on a new cleaner, the counters equal those of every
\* run in the other mode on the disk the cleaner was built on.
C4_DryRunSameCounters ==
    (pc = "report" /\ fresh) =>
        \A other \in RunOutcomes([disk0 EXCEPT !.user_dir = TRUE], ~dry_run) : other = stats

\* C5: with dry_run=true nothing on disk is created, modified or deleted
\* from the construction of the cleaner on, and the cache refresh is not
\* started.
C5_DryRunLeavesDiskAlone ==
    (pc # "new" /\ dry_run) => Disk = disk0

\* ------------------------------------------------------------------------
\* SpecResolve: scan and resolve on directories holding up to five launchers
\* ------------------------------------------------------------------------

ResolveOptions ==
    [p \in Paths |->
        IF p \in {<<SYSTEM, "a.desktop">>, <<SYSTEM, "b.desktop">>}
        THEN {NoFile, AppText("A")}
        ELSE IF p \in {<<USER, "a.desktop">>, <<USER, "b.desktop">>, <<USER, "c.desktop">>}
        THEN {NoFile, AppText("A"), AppText("B")}
        ELSE {NoFile}]

\* A cleaner __init__ has just returned, on the disk the variables hold.
Constructed ==
    /\ user_dir = TRUE
    /\ pc = "idle"
    /\ stats = ZeroStats
    /\ cache_runs = FALSE
    /\ duplicates = <<>>
    /\ returned = 0
    /\ errors = 0
    /\ last_op = "__init__"
    /\ primaries = <<>>
    /\ fresh = TRUE
    /\ raised = "none"
    /\ cause = "none"
    /\ before = Disk
    /\ disk0 = Disk

\* The same where no operation fails.
JustConstructed == unwritable = {} /\ Constructed

\* A cleaner just constructed, either mode, on a disk without association
\* files and backup directories.
InitResolve ==
    /\ fs \in Choices(Paths, ResolveOptions)
    /\ backup_dirs = [d \in SubdirNames |-> NoEntry]
    /\ mimefs = NoFiles({"user_mime_file", "config_mime_file"})
    /\ bak = NoFiles({"user_mime_file", "config_mime_file"})
    /\ dry_run \in BOOLEAN
    /\ JustConstructed

NextResolve == FindDuplicateApplications \/ HideDuplicateApplications

SpecResolve == InitResolve /\ [][NextResolve]_vars

Range(seq) == {seq[i] : i \in 1..Len(seq)}

\* A launcher entry a menu shows: its file exists and does not carry
\* NoDisplay=true, and no same-named file under the USER root carrying
\* NoDisplay=true shadows it.
StillVisible(p) ==
    /\ fs[p] # NoFile
    /\ parse_desktop_file(fs[p]).no_display # "True"
    /\ ~(p[1] = SYSTEM /\ parse_desktop_file(fs[<<USER, p[2]>>]).no_display = "True")

\* C1: after hide_duplicate_applications completes without I/O failure, not
\* in dry-run mode, on an index find_duplicate_applications returned, every
\* display name of the index has exactly one candidate still visible, the
\* survivor, whose file is as it was before the call.
C1_ExactlyOneVisible ==
    (/\ last_op = "hide_duplicate_applications"
     /\ ~dry_run
     /\ errors = 0
     /\ duplicates \in ScanResults(before.fs))
    => \A i \in 1..Len(duplicates) :
          /\ Cardinality({p \in Range(duplicates[i].files) : StillVisible(p)}) = 1
          /\ StillVisible(primaries[i])
          /\ fs[primaries[i]] = before.fs[primaries[i]]

\* C2: the survivor of every group is the SYSTEM-role entry with the
\* smallest path string if the group holds a SYSTEM-role entry, else the
\* USER-role entry with the smallest path string, whatever the order in
\* which the scan listed the files.
C2_SurvivorIsFirstSystemElseFirstUser ==
    last_op = "hide_duplicate_applications" =>
        /\ Len(primaries) = Len(duplicates)
        /\ \A i \in 1..Len(duplicates) :
              LET candidates == Range(duplicates[i].files)
                  system == {p \in candidates : p[1] = SYSTEM}
                  pool == IF system # {} THEN system ELSE candidates
              IN  /\ primaries[i] \in pool
                  /\ \A q \in pool \ {primaries[i]} : StrLess(PathStr(primaries[i]), PathStr(q))

\* One group of SYSTEM and USER entries and one of USER entries only, neither
\* listed with its survivor first.
C2_Witness ==
    /\ last_op = "hide_duplicate_applications"
    /\ \E i, k \in 1..Len(duplicates) :
          /\ primaries[i][1] = SYSTEM
          /\ duplicates[i].files[1] # primaries[i]
          /\ \E j \in 1..Len(duplicates[i].files) : duplicates[i].files[j][1] = USER
          /\ \A j \in 1..Len(duplicates[k].files) : duplicates[k].files[j][1] = USER
          /\ duplicates[k].files[1] # primaries[k]

\* ------------------------------------------------------------------------
\* SpecPurge: remove_wine_files on USER roots with wine files and subdirectories
\* ------------------------------------------------------------------------

PurgeLauncherOptions ==
    [p \in Paths |->
        IF p \in {<<USER, "wine-extension-a.desktop">>, <<USER, "wine-protocol-a.desktop">>,
                  <<USER, "a.desktop">>, <<SYSTEM, "wine-extension-a.desktop">>}
        THEN {NoFile, AppText("A")} ELSE {NoFile}]

\* backup_a is absent, a plain file, or a directory of any files; old_a is
\* a directory whose name does not match backup_*.
PurgeSubdirOptions ==
    [d \in SubdirNames |->
        CASE d = "backup_a" ->
                 {NoEntry, [kind |-> "file", files |-> {}]} \cup {DirOf(S) : S \in SUBSET InnerNames}
          [] d = "backup_b" -> {NoEntry, DirOf({"wine-a.desktop"}), DirOf({"a.desktop"})}
          [] OTHER -> {NoEntry, DirOf({"wine-a.desktop"})}]

InitPurge ==
    /\ fs \in Choices(Paths, PurgeLauncherOptions)
    /\ backup_dirs \in Choices(SubdirNames, PurgeSubdirOptions)
    /\ mimefs = NoFiles({"user_mime_file", "config_mime_file"})
    /\ bak = NoFiles({"user_mime_file", "config_mime_file"})
    /\ dry_run \in BOOLEAN
    /\ JustConstructed

NextPurge == RemoveWineFiles

SpecPurge == InitPurge /\ [][NextPurge]_vars

\* The files of directory d, before the call, matching wine-*.desktop.
WineInside(d) ==
    {n \in before.backup_dirs[d].files : GlobMatch(NameChars(n), WinePrefix, DotDesktop)}

RECURSIVE TotalInside(_)
TotalInside(D) ==
    IF D = {} THEN 0
    ELSE LET d == CHOOSE x \in D : TRUE IN Cardinality(WineInside(d)) + TotalInside(D \ {d})

\* C9: after remove_wine_files, not in dry-run mode and without deletion
\* failure, exactly the USER files matching wine-extension-*.desktop or
\* wine-protocol-*.desktop and the backup_* directories that held a
\* wine-*.desktop file are gone, everything else is in place, and the
\* returned count and wine_files_removed are the number of those files plus
\* the wine-*.desktop files inside the removed directories.
C9_PurgeRemovesAndCounts ==
    (last_op = "remove_wine_files" /\ ~dry_run /\ errors = 0) =>
        LET direct == {p \in Paths :
                          /\ p[1] = USER
                          /\ before.fs[p] # NoFile
                          /\ \/ GlobMatch(NameChars(p[2]), WineExtensionPrefix, DotDesktop)
                             \/ GlobMatch(NameChars(p[2]), WineProtocolPrefix, DotDesktop)}
            removed == {d \in SubdirNames :
                          /\ GlobMatch(NameChars(d), BackupPrefix, <<>>)
                          /\ before.backup_dirs[d].kind = "dir"
                          /\ WineInside(d) # {}}
        IN  /\ \A p \in Paths : fs[p] = IF p \in direct THEN NoFile ELSE before.fs[p]
            /\ \A d \in SubdirNames :
                  backup_dirs[d] = IF d \in removed THEN NoEntry ELSE before.backup_dirs[d]
            /\ returned = Cardinality(direct) + TotalInside(removed)
            /\ stats.wine_files_removed = returned
            /\ mimefs = before.mimefs /\ bak = before.bak

\* Two matching files and a backup directory of two wine files and another
\* file are removed, counted as four; a backup directory without a wine
\* file, a directory not named backup_* and a SYSTEM wine file stay.
C9_Witness ==
    /\ last_op = "remove_wine_files" /\ ~dry_run /\ errors = 0
    /\ before.fs[<<USER, "wine-extension-a.desktop">>] # NoFile
    /\ before.fs[<<USER, "wine-protocol-a.desktop">>] # NoFile
    /\ before.backup_dirs["backup_a"] = DirOf(InnerNames)
    /\ backup_dirs["backup_a"] = NoEntry
    /\ backup_dirs["backup_b"] = DirOf({"a.desktop"})
    /\ backup_dirs["old_a"] = DirOf({"wine-a.desktop"})
    /\ fs[<<SYSTEM, "wine-extension-a.desktop">>] # NoFile
    /\ returned = 4

\* ------------------------------------------------------------------------
\* SpecMime: clean_mime_duplicates on association files of every short line
\* ------------------------------------------------------------------------

LineTokens == {"=", ";", "a.desktop", "b.desktop", "x"}

\* The example line of the documentation, and a line whose entries recur
\* out of order.
ExampleLine ==
    <<"Key", "=", "a.desktop", ";", "b.desktop", ";", "a.desktop", ";", ";", "c.desktop">>

RecurringLine ==
    <<"k", "=", "b.desktop", ";", "a.desktop", ";", "b.desktop", ";", "x", ";", "a.desktop">>

MimeLines ==
    UNION {[1..n -> LineTokens] : n \in 0..MaxLineLen} \cup {ExampleLine, RecurringLine}

\* What precedes and what follows the line in the file.
MimeBefore == {<<>>, <<"[Added Associations]", NL, NL>>}

MimeAfter == {<<>>, <<NL>>, <<CR, NL, "k", "=", "x">>}

MimeContents == {pre \o line \o post : pre \in MimeBefore, line \in MimeLines, post \in MimeAfter}

InitMime ==
    /\ fs = NoFiles(Paths)
    /\ backup_dirs = [d \in SubdirNames |-> NoEntry]
    /\ \/ /\ mimefs \in {("user_mime_file" :> c) @@ ("config_mime_file" :> NoFile) :
                            c \in MimeContents}
          /\ dry_run = FALSE
       \/ /\ mimefs \in {("user_mime_file" :> c) @@ ("config_mime_file" :> MimeSample) :
                            c \in {NoFile, MimeSample}}
          /\ dry_run \in BOOLEAN
    /\ bak = NoFiles({"user_mime_file", "config_mime_file"})
    /\ JustConstructed

NextMime == CleanMimeDuplicates

SpecMime == InitMime /\ [][NextMime]_vars

\* The association files the last call rewrote.
Rewritten ==
    IF last_op = "clean_mime_duplicates" /\ ~dry_run /\ errors = 0
    THEN {f \in DOMAIN mimefs : before.mimefs[f] # NoFile} ELSE {}

LinesOf(content) == Split(ReadText(content), NL)

FirstAt(seq, x) == CHOOSE i \in 1..Len(seq) : seq[i] = x /\ \A j \in 1..(i - 1) : seq[j] # x

\* `out' is `key=' followed by the distinct non-empty entries of `value' in
\* order of first occurrence, each followed by ';'.
IsCleaned(out, key, value) ==
    LET entries == Split(value, ";")
        wanted == {e \in Range(entries) : e # <<>>}
        outv == SubSeq(out, Len(key) + 2, Len(out))
        oute == Split(outv, ";")
        items == SubSeq(oute, 1, Len(oute) - 1)
    IN  /\ StartsWith(out, key \o <<"=">>)
        /\ IF wanted = {} THEN outv = <<>>
           ELSE /\ outv[Len(outv)] = ";"
                /\ oute[Len(oute)] = <<>>
                /\ Range(items) = wanted
                /\ Len(items) = Cardinality(wanted)
                /\ \A a, b \in 1..Len(items) :
                      a < b => FirstAt(entries, items[a]) < FirstAt(entries, items[b])

\* C6: every line of a rewritten association file that held both '=' and
\* '.desktop' is now the text before its first '=', then '=', then its
\* distinct non-empty ';'-separated entries in order of first occurrence,
\* without duplicate or empty entry, with a trailing ';' iff there is one.
C6_CleanedLine ==
    \A f \in Rewritten :
        LET old == LinesOf(before.mimefs[f])
            new == LinesOf(mimefs[f])
        IN  \A i \in 1..Len(old) :
               (Contains(old[i], "=") /\ has_desktop(old[i])) =>
                   /\ i <= Len(new)
                   /\ LET eq == FirstAt(old[i], "=")
                      IN  IsCleaned(new[i], SubSeq(old[i], 1, eq - 1),
                                    SubSeq(old[i], eq + 1, Len(old[i])))

\* The example of the documentation, cleaned.
C6_Witness ==
    /\ "user_mime_file" \in Rewritten
    /\ \E pre \in MimeBefore, post \in MimeAfter :
          /\ before.mimefs["user_mime_file"] = pre \o ExampleLine \o post
          /\ mimefs["user_mime_file"] =
                 ReadText(pre) \o <<"Key", "=", "a.desktop", ";", "b.desktop", ";",
                                    "c.desktop", ";">> \o ReadText(post)
          /\ pre # <<>> /\ post # <<>>

\* C7: a call of clean_mime_duplicates that follows a call of it without
\* failure, not in dry-run mode, leaves every association file as it is,
\* and every call adds to backups_created one per association file that
\* exists.
C7_SecondCleanIsIdentity ==
    [][(last_op' = "clean_mime_duplicates" /\ ~dry_run /\ errors' = 0) =>
          /\ stats'.backups_created =
                 stats.backups_created + Cardinality({f \in DOMAIN mimefs : mimefs[f] # NoFile})
          /\ (last_op = "clean_mime_duplicates" /\ errors = 0) => mimefs' = mimefs
      ]_vars

\* The second call after a first that changed the file: the file is as the
\* first call left it, its backup is the first call's output, and two
\* backups were counted.
C7_Witness ==
    /\ last_op = "clean_mime_duplicates" /\ ~dry_run /\ errors = 0
    /\ stats.backups_created = 2
    /\ mimefs["user_mime_file"] # NoFile
    /\ mimefs["config_mime_file"] = NoFile
    /\ before.mimefs = mimefs
    /\ bak["user_mime_file"] = mimefs["user_mime_file"]
    /\ disk0.mimefs["user_mime_file"] # mimefs["user_mime_file"]

\* C8: a rewritten association file has as many lines as before, and every
\* line that lacked '=' or '.desktop' is in its place unchanged.
C8_OtherLinesPassThrough ==
    \A f \in Rewritten :
        LET old == LinesOf(before.mimefs[f])
            new == LinesOf(mimefs[f])
        IN  /\ Len(new) = Len(old)
            /\ \A i \in 1..Len(old) :
                  (~Contains(old[i], "=") \/ ~has_desktop(old[i])) => new[i] = old[i]

\* A file of a section header, a blank line, a line that is rewritten and
\* a key without '.desktop', of which only the third line changed.
C8_Witness ==
    /\ "user_mime_file" \in Rewritten
    /\ LET old == LinesOf(before.mimefs["user_mime_file"])
           new == LinesOf(mimefs["user_mime_file"])
       IN  /\ Len(old) = 4
           /\ old[1] = <<"[Added Associations]">> /\ old[2] = <<>>
           /\ old[4] = <<"k", "=", "x">>
           /\ new[3] # old[3]
           /\ new[1] = old[1] /\ new[2] = old[2] /\ new[4] = old[4]

\* ------------------------------------------------------------------------
\* SpecLauncher: scan and resolve on a USER launcher of every few lines
\* ------------------------------------------------------------------------

LauncherLines ==
    {HeaderLine, <<"Name=", "A">>, <<"Type=", "Application">>,
     <<"NoDisplay=", "false">>, <<"NoDisplay=", "true">>}

\* Files of up to MaxLines lines, the last one with or without terminator.
LauncherContents ==
    {JoinWith(ls, NL) \o end :
        ls \in UNION {[1..n -> LauncherLines] : n \in 0..MaxLines}, end \in {<<>>, <<NL>>}}

\* USER a.desktop is a plain launcher named A; USER c.desktop is any file.
InitLauncher ==
    /\ fs \in {[p \in Paths |->
                   IF p = <<USER, "a.desktop">> THEN AppText("A")
                   ELSE IF p = <<USER, "c.desktop">> THEN c ELSE NoFile] :
               c \in LauncherContents}
    /\ backup_dirs = [d \in SubdirNames |-> NoEntry]
    /\ mimefs = NoFiles({"user_mime_file", "config_mime_file"})
    /\ bak = NoFiles({"user_mime_file", "config_mime_file"})
    /\ dry_run = FALSE
    /\ JustConstructed

NextLauncher == FindDuplicateApplications \/ HideDuplicateApplications

SpecLauncher == InitLauncher /\ [][NextLauncher]_vars

\* The lines of a file without their terminators.
BareLines(content) ==
    LET lines == ReadLines(content)
    IN  [i \in 1..Len(lines) |->
            IF lines[i][Len(lines[i])] = NL THEN SubSeq(lines[i], 1, Len(lines[i]) - 1)
            ELSE lines[i]]

\* The USER files the last hide_duplicate_applications rewrote in place.
SuppressedInPlace ==
    IF last_op = "hide_duplicate_applications" /\ ~dry_run /\ errors = 0
    THEN {p \in Paths :
            /\ p[1] = USER
            /\ before.fs[p] # NoFile
            /\ \E i \in 1..Len(duplicates) :
                  p \in Range(duplicates[i].files) /\ p # primaries[i]
            /\ ~\E i \in 1..Len(duplicates) : <<SYSTEM, p[2]>> \in Range(duplicates[i].files)}
    ELSE {}

\* C10: a USER launcher suppressed in place has exactly one line beginning
\* with NoDisplay=, that line is NoDisplay=true, and it comes right after
\* the first line that is exactly [Desktop Entry]; a file that had no such
\* line ends with that header line and then the flag line.
C10_OneFlagAfterHeader ==
    \A p \in SuppressedInPlace :
        LET old == BareLines(before.fs[p])
            new == BareLines(fs[p])
            flags == {i \in 1..Len(new) : StartsWith(new[i], <<"NoDisplay=">>)}
            headers == {i \in 1..Len(new) : new[i] = HeaderLine}
        IN  /\ Cardinality(flags) = 1
            /\ \A i \in flags : new[i] = <<"NoDisplay=", "true">>
            /\ headers # {}
            /\ \A h \in headers : (\A j \in headers : h <= j) => (h + 1) \in flags
            /\ (~\E i \in 1..Len(old) : old[i] = HeaderLine) => (Len(new) - 1) \in headers

\* C11: a USER launcher suppressed in place keeps every line that is not a
\* NoDisplay= line, verbatim and in order; the file differs from the one
\* before only by the NoDisplay= lines removed, the NoDisplay=true line
\* added and, when it had no [Desktop Entry] line, that line added at the end.
C11_OtherLinesVerbatim ==
    \A p \in SuppressedInPlace :
        LET old == BareLines(before.fs[p])
            new == BareLines(fs[p])
            kept == SelectSeq(old, LAMBDA l : ~StartsWith(Strip(l), <<"NoDisplay=">>))
            rest == SelectSeq(new, LAMBDA l : ~StartsWith(Strip(l), <<"NoDisplay=">>))
        IN  IF \E i \in 1..Len(old) : old[i] = HeaderLine
            THEN rest = kept
            ELSE rest = Append(kept, HeaderLine)

\* ------------------------------------------------------------------------
\* SpecMimeFaults: clean_mime_duplicates where operations on the files fail
\* ------------------------------------------------------------------------

\* The failures of the association files: the copy to the backup, the
\* rewriting, the exists() test.
MimeFaults == {"bak", "mime", "stat"} \X {"user_mime_file", "config_mime_file"}

InitMimeFaults ==
    /\ fs = NoFiles(Paths)
    /\ backup_dirs = [d \in SubdirNames |-> NoEntry]
    /\ mimefs \in [{"user_mime_file", "config_mime_file"} -> {NoFile, MimeSample}]
    /\ bak = NoFiles({"user_mime_file", "config_mime_file"})
    /\ dry_run \in BOOLEAN
    /\ unwritable \in SUBSET MimeFaults
    /\ Constructed

SpecMimeFaults == InitMimeFaults /\ [][NextMime]_vars

\* C12: when backing up, reading or rewriting an association file failed
\* inside clean_mime_duplicates, the call ended by raising a typed error
\* (CleanerError or its subclass BackupError) to its caller.
C12_MimeFailureSurfaces ==
    (last_op = "clean_mime_duplicates" /\ errors > 0)
        => raised \in {"CleanerError", "BackupError"}

\* ------------------------------------------------------------------------
\* SpecRun: run() after run(), where examining a directory or file may fail
\* ------------------------------------------------------------------------

RunLauncherOptions ==
    [p \in Paths |->
        IF p = <<SYSTEM, "b.desktop">> THEN {AppText("A")}
        ELSE IF p \in {<<USER, "b.desktop">>, <<USER, "wine-extension-a.desktop">>}
        THEN {NoFile, AppText("A")} ELSE {NoFile}]

RunFaults ==
    {<<"stat", SYSTEM>>, <<"stat", "user_mime_file">>, <<"stat", "config_mime_file">>,
     <<"mime", "user_mime_file">>}

InitRun ==
    /\ fs \in Choices(Paths, RunLauncherOptions)
    /\ backup_dirs = [d \in SubdirNames |-> NoEntry]
    /\ mimefs \in [{"user_mime_file", "config_mime_file"} -> {NoFile, MimeSample}]
    /\ bak = NoFiles({"user_mime_file", "config_mime_file"})
    /\ dry_run \in BOOLEAN
    /\ unwritable \in SUBSET RunFaults
    /\ Constructed

NextRun == RunPurge \/ RunScan \/ RunResolve \/ RunMime \/ RunCaches \/ RunReport

\* run() is at a statement after its first and goes to another or ends.
RunProceeds ==
    /\ pc \in {"scan", "resolve", "mime", "caches", "report"}
    /\ pc' \in {"resolve", "mime", "caches", "report", "idle"}
    /\ pc' # pc

\* A run() that was called goes on until it returns or raises.
SpecRun == InitRun /\ [][NextRun]_vars /\ WF_pc(RunProceeds)

\* C13: a stage of run() that raises ends run() with a CleanerError whose
\* cause is the exception raised; no further stage runs; the launcher
\* files, the backup directories and the counters the completed stages left
\* stay as they are.
C13_RunRaisesOnceNoRollback ==
    [][(pc # "idle" /\ raised' # "none") =>
          /\ raised' = "CleanerError"
          /\ cause' = "PermissionError"
          /\ pc' = "idle"
          /\ fs' = fs /\ backup_dirs' = backup_dirs /\ cache_runs' = cache_runs
          /\ stats'.wine_files_removed = stats.wine_files_removed
          /\ (pc = "mime" => stats'.duplicates_hidden = stats.duplicates_hidden)
          /\ stats'.backups_created >= stats.backups_created
      ]_vars

\* run() raised in the association stage after the resolve stage wrote an
\* override, which is still there, and counted it.
C13_Witness ==
    /\ pc = "idle" /\ raised = "CleanerError" /\ cause = "PermissionError"
    /\ last_op = "clean_mime_duplicates"
    /\ ~dry_run /\ fresh = FALSE
    /\ stats.duplicates_hidden = 1
    /\ fs # disk0.fs
    /\ cache_runs = FALSE

\* The statement run() goes to next, and the method the step executed.
StageOrder ==
    {<<"idle", "scan", "remove_wine_files">>,
     <<"scan", "resolve", "find_duplicate_applications">>,
     <<"resolve", "mime", "hide_duplicate_applications">>,
     <<"mime", "caches", "clean_mime_duplicates">>,
     <<"mime", "report", "clean_mime_duplicates">>,
     <<"caches", "report", "update_caches">>,
     <<"report", "idle", "run">>}

\* C14: run() executes remove_wine_files, find_duplicate_applications,
\* hide_duplicate_applications, clean_mime_duplicates, update_caches and the
\* report in this order, never going back; update_caches is executed iff
\* dry_run is false, and only right after clean_mime_duplicates; a run()
\* from which no exception escapes reaches the report and returns.
C14_StagesInOrder ==
    /\ [][(pc # pc' /\ pc # "new") =>
             /\ \/ <<pc, pc', last_op'>> \in StageOrder
                \/ pc' = "idle" /\ raised' = "CleanerError"
             /\ pc' = "caches" => ~dry_run
             /\ (pc = "mime" /\ pc' = "report") => dry_run
             /\ pc' = "report" => (raised' = "none" /\ (cache_runs' <=> ~dry_run))
         ]_vars
    /\ (pc \in {"scan", "resolve", "mime", "caches", "report"}) ~> (pc = "idle")

\* A run() not in dry-run mode is at the report after the caches were
\* refreshed.
C14_Witness ==
    /\ pc = "report" /\ ~dry_run /\ cache_runs /\ last_op = "update_caches"
    /\ stats.duplicates_hidden = 1 /\ stats.mime_duplicates_cleaned = 1

\* ------------------------------------------------------------------------
\* The script desktop_duplicate_cleaner.py: its remove_wine_files and
\* hide_duplicate_applications, which differ from the package's
\* ------------------------------------------------------------------------

\* One turn of the inner loop of the script's hide_duplicate_applications.
\* create_hide_override has no try: a failing open() raises out of the
\* method.  add_no_display logs every exception and returns, and the caller
\* counts the file.  st = [files, hidden_count, primary, errors, raised].
standalone_hide_one(st, app_name, duplicate_file, dry, denied) ==
    IF is_system_file(duplicate_file)
    THEN LET target == local_override(duplicate_file) IN
         IF dry THEN [st EXCEPT !.hidden_count = @ + 1]
         ELSE IF target \in denied THEN [st EXCEPT !.raised = "PermissionError"]
         ELSE [st EXCEPT !.files[target] = hide_override_text(app_name),
                         !.hidden_count = @ + 1]
    ELSE IF is_user_file(duplicate_file)
    THEN IF dry THEN [st EXCEPT !.hidden_count = @ + 1]
         ELSE IF st.files[duplicate_file] = NoFile \/ duplicate_file \in denied
         THEN [st EXCEPT !.errors = @ + 1, !.hidden_count = @ + 1]
         ELSE [st EXCEPT !.files[duplicate_file] = add_no_display_text(@),
                         !.hidden_count = @ + 1]
    ELSE st

RECURSIVE standalone_hide_each(_, _, _, _, _)
standalone_hide_each(st, app_name, duplicate_files, dry, denied) ==
    IF duplicate_files = <<>> \/ st.raised # "none" THEN st
    ELSE standalone_hide_each(
             standalone_hide_one(st, app_name, Head(duplicate_files), dry, denied),
             app_name, Tail(duplicate_files), dry, denied)

RECURSIVE standalone_hide_groups(_, _, _, _)
standalone_hide_groups(st, dups, dry, denied) ==
    IF dups = <<>> \/ st.raised # "none" THEN st
    ELSE LET sorted == files_sorted(Head(dups).files)
             after  == standalone_hide_each([st EXCEPT !.primary = Append(@, Head(sorted))],
                                            Head(dups).name, Tail(sorted), dry, denied)
         IN  standalone_hide_groups(after, Tail(dups), dry, denied)

standalone_hide_duplicate_applications(files, dups, dry, denied) ==
    standalone_hide_groups([files |-> files, hidden_count |-> 0, primary |-> <<>>,
                            errors |-> 0, raised |-> "none"],
                           dups, dry, denied)

RECURSIVE standalone_remove_each(_, _, _, _)
\* The loops of the script's remove_wine_files over `items', the files and
\* then the backup directories as listed: unlink and rmtree are not in a
\* try.  st = [files, dirs, removed_count, raised].
standalone_remove_each(st, items, dry, denied) ==
    IF items = <<>> \/ st.raised # "none" THEN st
    ELSE LET item == Head(items)
             next ==
                 IF item[1] = "backup_dir"
                 THEN LET inside == Cardinality(wine_files_in_backup(st.dirs[item[2]])) IN
                      IF dry THEN [st EXCEPT !.removed_count = @ + inside]
                      ELSE IF item \in denied THEN [st EXCEPT !.raised = "PermissionError"]
                      ELSE [st EXCEPT !.dirs[item[2]] = NoEntry,
                                      !.removed_count = @ + inside]
                 ELSE IF dry THEN [st EXCEPT !.removed_count = @ + 1]
                      ELSE IF item \in denied THEN [st EXCEPT !.raised = "PermissionError"]
                      ELSE [st EXCEPT !.files[item] = NoFile, !.removed_count = @ + 1]
         IN  standalone_remove_each(next, Tail(items), dry, denied)

\* The script's remove_wine_files for one listing of the files and one of
\* the directories.
standalone_remove_wine_files(files, dirs, file_list, dir_list, dry, denied) ==
    standalone_remove_each([files |-> files, dirs |-> dirs, removed_count |-> 0,
                            raised |-> "none"],
                           file_list \o dir_list, dry, denied)

\* remove_wine_files() of the script; when it raises, wine_files_removed is
\* not assigned.
StandaloneRemoveWineFiles ==
    /\ pc = "idle"
    /\ \E ext_list \in Listings({p \in wine_files(fs) :
                   GlobMatch(NameChars(p[2]), WineExtensionPrefix, DotDesktop)}),
          prot_list \in Listings({p \in wine_files(fs) :
                   GlobMatch(NameChars(p[2]), WineProtocolPrefix, DotDesktop)}),
          dir_list \in Listings({<<"backup_dir", d>> : d \in wine_backup_dirs(backup_dirs)}) :
          LET r == standalone_remove_wine_files(fs, backup_dirs, ext_list \o prot_list,
                                                dir_list, dry_run, unwritable) IN
          /\ fs' = r.files
          /\ backup_dirs' = r.dirs
          /\ stats' = IF r.raised = "none"
                      THEN [stats EXCEPT !.wine_files_removed = r.removed_count] ELSE stats
          /\ returned' = IF r.raised = "none" THEN r.removed_count ELSE returned
          /\ raised' = r.raised
    /\ errors' = 0
    /\ cause' = "none"
    /\ last_op' = "remove_wine_files"
    /\ before' = Disk
    /\ pc' = "idle"
    /\ fresh' = FALSE
    /\ UNCHANGED <<dry_run, user_dir, mimefs, bak, cache_runs, unwritable, duplicates,
                   primaries, disk0>>

\* hide_duplicate_applications(duplicates) of the script; when it raises,
\* duplicates_hidden is not assigned.
StandaloneHideDuplicateApplications ==
    LET r == standalone_hide_duplicate_applications(fs, duplicates, dry_run, unwritable) IN
    /\ pc = "idle"
    /\ fs' = r.files
    /\ stats' = IF r.raised = "none"
                THEN [stats EXCEPT !.duplicates_hidden = r.hidden_count] ELSE stats
    /\ returned' = IF r.raised = "none" THEN r.hidden_count ELSE returned
    /\ errors' = r.errors
    /\ raised' = r.raised
    /\ cause' = "none"
    /\ primaries' = r.primary
    /\ last_op' = "hide_duplicate_applications"
    /\ before' = Disk
    /\ pc' = "idle"
    /\ fresh' = FALSE
    /\ UNCHANGED <<dry_run, user_dir, backup_dirs, mimefs, bak, cache_runs, unwritable,
                   duplicates, disk0>>

\* ------------------------------------------------------------------------
\* SpecStandalone: the script where writing or deleting may fail
\* ------------------------------------------------------------------------

FaultyLauncherOptions ==
    [p \in Paths |->
        CASE p = <<SYSTEM, "a.desktop">> -> {AppText("A")}
          [] p = <<SYSTEM, "b.desktop">> -> {NoFile, AppText("A")}
          [] p = <<USER, "a.desktop">> -> {NoFile, AppText("B")}
          [] p = <<USER, "c.desktop">> -> {NoFile, AppText("A"), AppText("B")}
          [] OTHER -> {NoFile}]

FaultyWineOptions ==
    [p \in Paths |->
        IF p \in {<<USER, "wine-extension-a.desktop">>, <<USER, "wine-protocol-a.desktop">>}
        THEN {NoFile, AppText("A")} ELSE {NoFile}]

FaultySubdirOptions ==
    [d \in SubdirNames |->
        IF d \in {"backup_a", "backup_b"} THEN {NoEntry, DirOf({"wine-a.desktop"})}
        ELSE {NoEntry}]

\* Either launchers to resolve, of which USER b.desktop and c.desktop may be
\* unwritable, or wine files and backup directories, any of which may be
\* undeletable.
InitFaulty ==
    /\ \/ /\ fs \in Choices(Paths, FaultyLauncherOptions)
          /\ backup_dirs = [d \in SubdirNames |-> NoEntry]
          /\ unwritable \in SUBSET {<<USER, "b.desktop">>, <<USER, "c.desktop">>}
       \/ /\ fs \in Choices(Paths, FaultyWineOptions)
          /\ backup_dirs \in Choices(SubdirNames, FaultySubdirOptions)
          /\ unwritable \in SUBSET {<<USER, "wine-extension-a.desktop">>,
                                    <<USER, "wine-protocol-a.desktop">>,
                                    <<"backup_dir", "backup_a">>, <<"backup_dir", "backup_b">>}
    /\ mimefs = NoFiles({"user_mime_file", "config_mime_file"})
    /\ bak = NoFiles({"user_mime_file", "config_mime_file"})
    /\ dry_run \in BOOLEAN
    /\ Constructed

NextStandalone ==
    \/ StandaloneRemoveWineFiles
    \/ FindDuplicateApplications
    \/ StandaloneHideDuplicateApplications

SpecStandalone == InitFaulty /\ [][NextStandalone]_vars

\* The same disks under the package.
NextFaulty == RemoveWineFiles \/ FindDuplicateApplications \/ HideDuplicateApplications

SpecFaulty == InitFaulty /\ [][NextFaulty]_vars

\* Suppressing p was refused in the last hide_duplicate_applications.
SuppressionFailed(p) ==
    /\ ~dry_run
    /\ IF p[1] = SYSTEM THEN <<USER, p[2]>> \in unwritable
       ELSE p \in unwritable \/ before.fs[p] = NoFile

\* C15: hide_duplicate_applications returns normally; the count it returns
\* and stores is the number of suppressed records whose suppression did not
\* fail, whichever branch ran; every such record, of any group, was
\* suppressed although another failed.
C15_HideCountsSuccesses ==
    last_op = "hide_duplicate_applications" =>
        /\ raised = "none"
        /\ Len(primaries) = Len(duplicates)
        /\ LET records == {r \in (1..Len(duplicates)) \X Paths :
                              /\ r[2] \in Range(duplicates[r[1]].files)
                              /\ r[2] # primaries[r[1]]}
               done == {r \in records : ~SuppressionFailed(r[2])}
           IN  /\ returned = Cardinality(done)
               /\ stats.duplicates_hidden = returned
               /\ \A r \in done :
                     ~dry_run => parse_desktop_file(fs[<<USER, r[2][2]>>]).no_display = "True"

\* C16: a purge not in dry-run mode returns normally; the matching files
\* and backup directories whose deletion was refused remain and are not
\* counted, all others are removed and counted.
C16_PurgeSkipsFailures ==
    (last_op = "remove_wine_files" /\ ~dry_run) =>
        LET matched == {p \in Paths :
                           /\ p[1] = USER /\ before.fs[p] # NoFile
                           /\ \/ GlobMatch(NameChars(p[2]), WineExtensionPrefix, DotDesktop)
                              \/ GlobMatch(NameChars(p[2]), WineProtocolPrefix, DotDesktop)}
            holding == {d \in SubdirNames :
                           /\ GlobMatch(NameChars(d), BackupPrefix, <<>>)
                           /\ before.backup_dirs[d].kind = "dir"
                           /\ WineInside(d) # {}}
            deleted == {d \in holding : <<"backup_dir", d>> \notin unwritable}
        IN  /\ raised = "none"
            /\ \A p \in matched : (fs[p] = NoFile) <=> (p \notin unwritable)
            /\ \A d \in holding : (backup_dirs[d] = NoEntry) <=> (d \in deleted)
            /\ returned = Cardinality(matched \ unwritable) + TotalInside(deleted)
            /\ stats.wine_files_removed = returned

\* ------------------------------------------------------------------------
\* Repeated keys in a launcher file
\* ------------------------------------------------------------------------

\* The value of the first line of `lines' that begins with `key'.
RECURSIVE first_value(_, _)
first_value(lines, key) ==
    IF lines = <<>> THEN Absent
    ELSE IF StartsWith(Strip(Head(lines)), <<key>>) THEN Tail(Strip(Head(lines)))
    ELSE first_value(Tail(lines), key)

\* The record in which each recognized key has the value of its first line.
FirstOccurrenceRecord(content) ==
    LET lines == ReadLines(content)
        flag == first_value(lines, "NoDisplay=")
    IN  [name |-> first_value(lines, "Name="),
         no_display |-> IF flag = Absent THEN "absent"
                        ELSE IF Lower(flag) = <<"true">> THEN "True" ELSE "False",
         type |-> first_value(lines, "Type=")]

\* C17: the record of a launcher takes, for Name=, Type= and NoDisplay=, the
\* value of the first line with that key: beside the visible launcher
\* a.desktop named A, the scan lists c.desktop under A exactly when the
\* first-occurrence record of c.desktop is a visible application named A.
C17_FirstOccurrenceWins ==
    LET a == <<USER, "a.desktop">>
        c == <<USER, "c.desktop">>
    IN  (/\ last_op = "find_duplicate_applications"
         /\ fs[c] # NoFile
         /\ is_candidate(parse_desktop_file(fs[a])))
            => /\ parse_desktop_file(fs[c]) = FirstOccurrenceRecord(fs[c])
               /\ (\E i \in 1..Len(duplicates) : c \in Range(duplicates[i].files))
                     <=> (/\ is_candidate(FirstOccurrenceRecord(fs[c]))
                          /\ FirstOccurrenceRecord(fs[c]).name = <<"A">>)

\* ------------------------------------------------------------------------
\* SpecIndex: the scan over visible, hidden and non-application launchers
\* ------------------------------------------------------------------------

\* A launcher file of a link with display name `name'.
LinkText(name) ==
    <<"[Desktop Entry]", NL, "Type=", "Link", NL, "Name=", name, NL>>

IndexOptions ==
    [p \in Paths |->
        CASE p = <<SYSTEM, "a.desktop">> -> {NoFile, AppText("A")}
          [] p = <<SYSTEM, "b.desktop">> -> {NoFile, AppText("A"), AppText("B")}
          [] p = <<USER, "a.desktop">> ->
                 {NoFile, AppText("A"), HiddenAppText("A"), LinkText("A")}
          [] p = <<USER, "c.desktop">> -> {NoFile, AppText("A"), AppText("B")}
          [] OTHER -> {NoFile}]

InitIndex ==
    /\ fs \in Choices(Paths, IndexOptions)
    /\ backup_dirs = [d \in SubdirNames |-> NoEntry]
    /\ mimefs = NoFiles({"user_mime_file", "config_mime_file"})
    /\ bak = NoFiles({"user_mime_file", "config_mime_file"})
    /\ dry_run \in BOOLEAN
    /\ JustConstructed

NextIndex == FindDuplicateApplications \/ HideDuplicateApplications

SpecIndex == InitIndex /\ [][NextIndex]_vars

\* p is a file whose record has name n, type Application and is not hidden.
VisibleApplication(p, n) ==
    /\ fs[p] # NoFile
    /\ LET info == parse_desktop_file(fs[p]) IN
          /\ info.name = n
          /\ info.type = <<"Application">>
          /\ info.no_display # "True"

\* The files the index lists under the name n.
ListedUnder(n) ==
    UNION {Range(duplicates[i].files) : i \in {j \in 1..Len(duplicates) : duplicates[j].name = n}}

\* C18: after find_duplicate_applications the index lists a file under a name
\* iff the file is a visible application with that name and another such
\* file has the same name; every group has at least two files, no file is
\* in two groups or twice in one, and in a group the SYSTEM files come
\* before the USER files.
C18_IndexInvariants ==
    last_op = "find_duplicate_applications" =>
        /\ \A p \in Paths, n \in {<<"A">>, <<"B">>, Absent, <<>>} :
              (p \in ListedUnder(n)) <=>
                  /\ VisibleApplication(p, n)
                  /\ \E q \in Paths \ {p} : VisibleApplication(q, n)
        /\ \A i \in 1..Len(duplicates) :
              LET files == duplicates[i].files IN
              /\ Len(files) >= 2
              /\ duplicates[i].name \in {<<"A">>, <<"B">>}
              /\ \A k, l \in 1..Len(files) :
                    /\ (k # l) => files[k] # files[l]
                    /\ (k < l /\ files[l][1] = SYSTEM) => files[k][1] = SYSTEM
        /\ \A i, j \in 1..Len(duplicates) :
              (i # j) => /\ Range(duplicates[i].files) \cap Range(duplicates[j].files) = {}
                         /\ duplicates[i].name # duplicates[j].name

\* A scan that lists SYSTEM and USER files under A and leaves out an
\* existing file with a single-file name, a hidden one or a link.
C18_Witness ==
    /\ last_op = "find_duplicate_applications"
    /\ \E i \in 1..Len(duplicates) :
          /\ \E p \in Range(duplicates[i].files) : p[1] = SYSTEM
          /\ \E p \in Range(duplicates[i].files) : p[1] = USER
    /\ \E p \in Paths :
          /\ fs[p] # NoFile
          /\ parse_desktop_file(fs[p]).name = <<"A">>
          /\ \A i \in 1..Len(duplicates) : p \notin Range(duplicates[i].files)
    /\ \E p \in Paths :
          /\ VisibleApplication(p, <<"B">>)
          /\ \A i \in 1..Len(duplicates) : p \notin Range(duplicates[i].files)

\* ------------------------------------------------------------------------
\* The counters over the calls on one cleaner
\* ------------------------------------------------------------------------

\* C19: no step of run() and no entry-point call on a constructed cleaner
\* makes wine_files_removed, duplicates_hidden, mime_duplicates_cleaned or
\* backups_created smaller than it was before the step.
C19_CountersNeverDecrease ==
    [][(pc # "new") =>
          /\ stats'.wine_files_removed >= stats.wine_files_removed
          /\ stats'.duplicates_hidden >= stats.duplicates_hidden
          /\ stats'.mime_duplicates_cleaned >= stats.mime_duplicates_cleaned
          /\ stats'.backups_created >= stats.backups_created]_vars

\* ------------------------------------------------------------------------
\* A second scan after a resolve
\* ------------------------------------------------------------------------

\* C20: when hide_duplicate_applications, not in dry-run mode and without
\* failure, has resolved the index of a scan of the disk it found, the next
\* find_duplicate_applications returns no duplicate group.
C20_SecondScanFindsNothing ==
    [][(/\ last_op = "hide_duplicate_applications"
        /\ ~dry_run
        /\ errors = 0
        /\ duplicates \in ScanResults(before.fs)
        /\ last_op' = "find_duplicate_applications")
           => duplicates' = <<>>]_vars

\* ------------------------------------------------------------------------
\* _add_no_display followed by parse_desktop_file, and applied twice
\* ------------------------------------------------------------------------

\* C21: for a USER launcher suppressed in place, whatever its content, the
\* record parse_desktop_file reads from the rewritten file is hidden and has
\* the name the file had before, and _add_no_display applied to the
\* rewritten file leaves its content as it is.
C21_RewriteRoundTrip ==
    \A p \in SuppressedInPlace :
        /\ parse_desktop_file(fs[p]).no_display = "True"
        /\ parse_desktop_file(fs[p]).name = parse_desktop_file(before.fs[p]).name
        /\ add_no_display_text(fs[p]) = fs[p]

=============================================================================
